---- MODULE Spec2Model ----
(***************************************************************************)
(* A model of imap_archiver.py.                                            *)
(*                                                                         *)
(* Spec     : main() and archive_messages(): one archival run against an   *)
(*            IMAP server whose every answer is chosen nondeterministically.*)
(* SpecZip  : compress_folders() and create_multipart_zip() over           *)
(*            nondeterministically chosen mailbox subdirectories.          *)
(***************************************************************************)
EXTENDS Integers, Sequences, FiniteSets, TLC

\* ---------------------------------------------------------------- bounds
MaxMsgs == 2
MaxFolders == 2
MaxFiles == 3
MaxFileSize == 3

\* ---------------------------------------------------------------- inputs
\* <<--start-date, --end-date>>: 0 stands for "option not given" (None);
\* 1 < 2 are two calendar days.  No filter, since only, before only, a
\* range, an empty range, and a range with start after end.
DateRanges == {<<0, 0>>, <<1, 0>>, <<0, 1>>, <<1, 2>>, <<1, 1>>, <<2, 1>>}
\* --limit: None and 0 are both falsy in Python; a negative value is accepted
\* by argparse (type=int).
Limits == {-1, 0, 1}
Mailboxes == {"Old/2023", "Old_2023"}
NoFolder == "<none>"

Min(a, b) == IF a < b THEN a ELSE b
Max(a, b) == IF a > b THEN a ELSE b

SeqsUpTo(S, n) == UNION {[1..k -> S] : k \in 0..n}

\* --folders has nargs='+': at least one name, duplicates allowed.
FolderLists == SeqsUpTo(Mailboxes, MaxFolders) \ {<<>>}

\* archive_messages treats every mailbox name alike (the names matter to the
\* paths recorded in SpecFs only): one list of each length, neighbours differing.
FolderListsByLength ==
    {[k \in 1..n |-> IF k % 2 = 1 THEN "Old/2023" ELSE "Old_2023"] : n \in 1..MaxFolders}

VARIABLES
    \* ---- command line (args)
    start_date, end_date, limit, delete_messages, force_delete,
    all_folders, arg_folders,
    \* ---- control
    pc,             \* position in main / archive_messages / download_message
    outcome,        \* "running", "exit0", "exit1" (sys.exit(1)), "crash" (uncaught exception)
    ret,            \* value archive_messages is about to return from inside try
    \* ---- the session object `mail`
    connected,      \* connect_to_server returned an IMAP4 object
    selected,       \* mailbox selected on the connection, or NoFolder
    \* ---- locals of archive_messages
    date_criteria, folders, fi, nmsgs, i,
    folder_downloaded, folder_errors,
    total_downloaded, total_errors, total_deleted,
    summary_written,
    \* ---- history (observations of what the run did)
    lastOp,         \* the last remote call issued
    connects,       \* number of connection attempts
    fetches,        \* number of FETCH calls issued in the whole run
    fetched,        \* ids of this mailbox iteration for which FETCH was issued
    rawWritten,     \* ... whose .eml file was written
    metaWritten,    \* ... whose _metadata.json file was written
    stored,         \* ... for which STORE +FLAGS \Deleted was issued
    downloadedIds,  \* ... counted in folder_downloaded
    errorIds,       \* ... counted in folder_errors
    expunged,       \* EXPUNGE was issued in this mailbox iteration
    confirm,        \* the answer typed at the deletion prompt, "none" if not asked
    track_fs,       \* whether fs is being recorded in this run
    fs,             \* the .eml files written so far: path and the message it holds
    \* ---- compaction (SpecZip)
    zpc, max_size, keep_uncompressed, dirs_left,
    files, order, zi, zip_files, current_zip, current_zip_size, current_zip_num,
    write_failed, folder_size, folders_compressed, removed,
    dir_names,      \* names of the mailbox subdirectories of output_dir
    dir_dates,      \* per subdirectory, the dates of its _metadata.json records
    base_name,      \* base label of the containers of the current subdirectory
    packed          \* container counts of one file list packed in two orders

argVars == <<start_date, end_date, limit, delete_messages, force_delete,
             all_folders, arg_folders>>
ctlVars == <<pc, outcome, ret>>
mailVars == <<connected, selected>>
locVars == <<date_criteria, folders, fi, nmsgs, i, folder_downloaded, folder_errors,
             total_downloaded, total_errors, total_deleted, summary_written>>
histVars == <<lastOp, connects, fetches, fetched, rawWritten, metaWritten, stored,
              downloadedIds, errorIds, expunged, confirm, track_fs, fs>>
zipVars == <<zpc, max_size, keep_uncompressed, dirs_left, files, order, zi, zip_files,
             current_zip, current_zip_size, current_zip_num, write_failed,
             folder_size, folders_compressed, removed,
             dir_names, dir_dates, base_name, packed>>
vars == <<argVars, ctlVars, mailVars, locVars, histVars, zipVars>>

\* ------------------------------------------------------- the remote server
\* What the server would do with one logical operation: the first `fails`
\* attempts end in a transient-class exception (connection reset, SSL error,
\* broken pipe, imaplib error); an attempt after that returns `status`.
Outcomes ==
    {[fails |-> 0, status |-> s] : s \in {"OK", "NO"}}
    \cup {[fails |-> f, status |-> "OK"] : f \in {1, 2}}

NoOp == [kind |-> "NONE", folder |-> NoFolder, msg |-> 0, fails |-> 0,
         status |-> "OK", attempts |-> 0, result |-> "OK"]

\* A caller following a one-shot reconnect-and-retry policy: a first transient
\* failure is followed by a second attempt.
CallRetry(o) ==
    [attempts |-> IF o.fails >= 1 THEN 2 ELSE 1,
     result   |-> IF o.fails >= 2 THEN "EXC" ELSE o.status]

\* The code issues every remote call once, inside a try block with a plain
\* `except Exception`: the call raises when its first attempt fails, otherwise
\* it returns the server's status.  Nothing re-issues a call.
Call(o) ==
    [attempts |-> 1,
     result   |-> IF o.fails >= 1 THEN "EXC" ELSE o.status]

Op(k, f, m, o) ==
    [kind |-> k, folder |-> f, msg |-> m, fails |-> o.fails, status |-> o.status,
     attempts |-> Call(o).attempts, result |-> Call(o).result]

\* ------------------------------------------------------------ pure helpers
\* main(): the date-range validation, with the comparison reversed.
DateRangeInvalidReversed(s, e) == s # 0 /\ e # 0 /\ s < e

\* main(): args.start_date and args.end_date and args.start_date > args.end_date
DateRangeInvalid(s, e) == s # 0 /\ e # 0 /\ s > e

\* get_date_search_criteria: the clauses that are space-joined; <<>> is ''.
get_date_search_criteria(s, e) ==
    (IF s # 0 THEN << <<"SINCE", s>> >> ELSE <<>>)
    \o (IF e # 0 THEN << <<"BEFORE", e>> >> ELSE <<>>)

\* One line of a LIST response.  "quoted": (\flags) "/" "name";
\* "bare": (\flags) "/" name  -- the name is not quoted, the delimiter is;
\* "nil": (\flags) NIL name   -- nothing is quoted.
ListLines == [name : Mailboxes, form : {"quoted", "bare", "nil"}]
ListResponses == SeqsUpTo(ListLines, 1)

\* get_all_folders: parts = line.split('"'); a line with fewer than 3 parts is
\* dropped, otherwise parts[-2] is taken as the name.
RECURSIVE ParseList(_)
ParseList(resp) ==
    IF resp = <<>> THEN <<>>
    ELSE LET l == Head(resp)
             rest == ParseList(Tail(resp))
         IN  CASE l.form = "quoted" -> <<l.name>> \o rest
               [] l.form = "bare"   -> <<"/">> \o rest
               [] OTHER             -> rest

\* The loop's cap test, off by one: the message after the cap is still attempted.
LimitReachedOff(l, k) == l # 0 /\ k > l + 1

\* archive_messages: `if args.limit and i > args.limit: break`
LimitReached(l, k) == l # 0 /\ k > l

\* The number of handles of a mailbox with n search results that the loop
\* attempts under cap l.
Attempted(n, l) == IF l = 0 THEN n ELSE Min(n, Max(l, 0))

Folder == IF fi \in 1..Len(folders) THEN folders[fi] ELSE NoFolder

\* A container base label: the subdirectory name, preceded by a date range
\* when min and max are not 0.
NoLabel == [min |-> 0, max |-> 0, name |-> ""]

\* A mailbox name, character by character.
Chars(name) ==
    CASE name = "Old/2023" -> <<"O", "l", "d", "/", "2", "0", "2", "3">>
      [] name = "Old_2023" -> <<"O", "l", "d", "_", "2", "0", "2", "3">>
      [] name = "INBOX"    -> <<"I", "N", "B", "O", "X">>
      [] name = "/"        -> <<"/">>
      [] OTHER             -> <<name>>

\* archive_messages line 360: folder.replace('/', '_'), the name of the
\* mailbox's subdirectory below output_dir.
FolderDir(name) ==
    LET cs == Chars(name)
    IN  [k \in 1..Len(cs) |-> IF cs[k] = "/" THEN "_" ELSE cs[k]]

\* Subject headers, character by character.
Subjects == {<<"a", ":">>, <<"a", " ">>, <<"b">>}
SubjectLimit == 50

RECURSIVE KeepSafe(_)
\* download_message line 131: the characters that are alphanumeric or one of
\* ' ', '-', '_' are kept.
KeepSafe(cs) ==
    IF cs = <<>> THEN <<>>
    ELSE (IF Head(cs) \in {"a", "b", " ", "-", "_"} THEN <<Head(cs)>> ELSE <<>>)
         \o KeepSafe(Tail(cs))

RECURSIVE RStrip(_)
\* str.rstrip(): trailing blanks removed.
RStrip(cs) ==
    IF cs # <<>> /\ cs[Len(cs)] = " " THEN RStrip(SubSeq(cs, 1, Len(cs) - 1)) ELSE cs

\* download_message lines 131-132.
SafeSubject(subject) ==
    LET t == RStrip(KeepSafe(subject))
    IN  SubSeq(t, 1, Min(Len(t), SubjectLimit))

\* download_message lines 134-135 with folder_dir of line 360: the path of the
\* .eml file, <folder_dir>/<msg_id>_<safe_subject>.eml.  The metadata path is
\* this path with '.eml' replaced by '_metadata.json' (line 150).
FilePath(name, msg_id, subject) ==
    [dir |-> FolderDir(name), id |-> msg_id, subject |-> SafeSubject(subject)]

NotPacked == [largest_first |-> -1, arrival |-> -1]

\* ------------------------------------------------------------------- Init
ZipIdle ==
    /\ zpc = "idle" /\ max_size = 0 /\ keep_uncompressed = FALSE /\ dirs_left = 0
    /\ files = <<>> /\ order = <<>> /\ zi = 0 /\ zip_files = <<>> /\ current_zip = <<>>
    /\ current_zip_size = 0 /\ current_zip_num = 0 /\ write_failed = {}
    /\ folder_size = 0 /\ folders_compressed = <<>> /\ removed = FALSE
    /\ dir_names = <<>> /\ dir_dates = <<>> /\ base_name = NoLabel
    /\ packed = NotPacked

RunStart ==
    /\ pc = "main" /\ outcome = "running" /\ ret = FALSE
    /\ connected = FALSE /\ selected = NoFolder
    /\ date_criteria = <<>> /\ folders = <<>> /\ fi = 0 /\ nmsgs = 0 /\ i = 0
    /\ folder_downloaded = 0 /\ folder_errors = 0
    /\ total_downloaded = 0 /\ total_errors = 0 /\ total_deleted = 0
    /\ summary_written = FALSE
    /\ lastOp = NoOp /\ connects = 0 /\ fetches = 0
    /\ fetched = {} /\ rawWritten = {} /\ metaWritten = {} /\ stored = {}
    /\ downloadedIds = {} /\ errorIds = {} /\ expunged = FALSE
    /\ confirm = "none" /\ fs = {}

Init ==
    /\ \E r \in DateRanges : start_date = r[1] /\ end_date = r[2]
    /\ limit \in Limits
    /\ delete_messages \in BOOLEAN /\ force_delete \in BOOLEAN
    /\ all_folders \in BOOLEAN
    \* --all-folders overrides --folders, which is then left at its default
    /\ arg_folders \in (IF all_folders THEN {<<"INBOX">>} ELSE FolderListsByLength)
    /\ RunStart
    /\ track_fs = FALSE
    /\ ZipIdle

\* The runs in which the written files are recorded: no date filter, no cap,
\* any folder list, with and without deletion.
InitFs ==
    /\ start_date = 0 /\ end_date = 0
    /\ limit = 0
    /\ delete_messages \in BOOLEAN /\ force_delete = TRUE
    /\ all_folders \in BOOLEAN
    /\ arg_folders \in (IF all_folders THEN {<<"INBOX">>} ELSE FolderLists)
    /\ RunStart
    /\ track_fs = TRUE
    /\ ZipIdle

\* ---------------------------------------------------------------- actions
\* Leaving archive_messages from inside its try block: the finally clause runs.
Return(v) == /\ ret' = v /\ pc' = "finally"

\* main(): lines 509-512.
main_validate ==
    /\ pc = "main"
    /\ IF DateRangeInvalid(start_date, end_date)
       THEN /\ outcome' = "exit1" /\ pc' = "done"
       ELSE /\ outcome' = outcome /\ pc' = "connect"
    /\ UNCHANGED <<argVars, ret, mailVars, locVars, histVars, zipVars>>

\* connect_to_server, and archive_messages' `if not mail: return False`.
connect_to_server ==
    /\ pc = "connect"
    /\ \E o \in Outcomes :
        /\ lastOp' = Op("CONNECT", NoFolder, 0, o)
        /\ connects' = connects + 1
        /\ IF Call(o).result = "OK"
           THEN /\ connected' = TRUE /\ pc' = "folders" /\ outcome' = outcome
           ELSE /\ connected' = FALSE /\ pc' = "done" /\ outcome' = "exit1"
    /\ UNCHANGED <<argVars, ret, selected, locVars, zipVars, fs, track_fs, confirm,
                   fetches, fetched, rawWritten, metaWritten, stored,
                   downloadedIds, errorIds, expunged>>

\* archive_messages lines 326-341 with the explicit folder list.
resolve_folders ==
    /\ pc = "folders" /\ ~all_folders
    /\ date_criteria' = get_date_search_criteria(start_date, end_date)
    /\ folders' = arg_folders
    /\ pc' = "confirm"
    /\ UNCHANGED <<argVars, outcome, ret, mailVars, fi, nmsgs, i, folder_downloaded,
                   folder_errors, total_downloaded, total_errors, total_deleted,
                   summary_written, histVars, zipVars>>

\* archive_messages lines 326-341 with --all-folders: get_all_folders.
get_all_folders ==
    /\ pc = "folders" /\ all_folders
    /\ date_criteria' = get_date_search_criteria(start_date, end_date)
    /\ \E o \in Outcomes, resp \in ListResponses :
        /\ lastOp' = Op("LIST", NoFolder, 0, o)
        /\ folders' = IF Call(o).result = "OK" THEN ParseList(resp) ELSE <<>>
        /\ IF folders' = <<>>
           THEN Return(FALSE)
           ELSE /\ pc' = "confirm" /\ ret' = ret
    /\ UNCHANGED <<argVars, outcome, mailVars, fi, nmsgs, i, folder_downloaded,
                   folder_errors, total_downloaded, total_errors, total_deleted,
                   summary_written, zipVars, fs, track_fs, confirm,
                   connects, fetches, fetched, rawWritten, metaWritten, stored,
                   downloadedIds, errorIds, expunged>>

\* The prompt with its answer read but not acted on: the run goes on to the
\* mailboxes whatever was typed.
confirm_deletion_unheeded ==
    /\ pc = "confirm"
    /\ IF delete_messages /\ ~force_delete
       THEN \E answer \in {"yes", "no"} : confirm' = answer
       ELSE confirm' = confirm
    /\ pc' = "folder_loop" /\ ret' = ret /\ fi' = 1
    /\ UNCHANGED <<argVars, outcome, mailVars, date_criteria, folders, nmsgs, i,
                   folder_downloaded, folder_errors, total_downloaded, total_errors,
                   total_deleted, summary_written, lastOp, connects, fetches, fetched,
                   rawWritten, metaWritten, stored, downloadedIds, errorIds, expunged,
                   zipVars, fs, track_fs>>

\* archive_messages lines 343-354: the confirmation prompt and the counters.
confirm_deletion ==
    /\ pc = "confirm"
    /\ IF delete_messages /\ ~force_delete
       THEN \E answer \in {"yes", "no"} :
               /\ confirm' = answer
               /\ IF answer # "yes"
                  THEN /\ Return(FALSE) /\ fi' = fi
                  ELSE /\ pc' = "folder_loop" /\ ret' = ret /\ fi' = 1
       ELSE /\ confirm' = confirm
            /\ pc' = "folder_loop" /\ ret' = ret /\ fi' = 1
    /\ UNCHANGED <<argVars, outcome, mailVars, date_criteria, folders, nmsgs, i,
                   folder_downloaded, folder_errors, total_downloaded, total_errors,
                   total_deleted, summary_written, lastOp, connects, fetches, fetched,
                   rawWritten, metaWritten, stored, downloadedIds, errorIds, expunged,
                   zipVars, fs, track_fs>>

\* archive_messages line 356: the next mailbox, or the end of the loop.  The
\* observations of the mailbox iteration that ended are dropped here.
folder_loop ==
    /\ pc = "folder_loop"
    /\ IF fi > Len(folders)
       THEN pc' = "summary"
       ELSE pc' = "select"
    /\ fetched' = {} /\ rawWritten' = {} /\ metaWritten' = {} /\ stored' = {}
    /\ downloadedIds' = {} /\ errorIds' = {} /\ expunged' = FALSE
    /\ nmsgs' = 0 /\ i' = 0
    /\ UNCHANGED <<argVars, outcome, ret, mailVars, date_criteria, folders, fi,
                   folder_downloaded, folder_errors, total_downloaded, total_errors,
                   total_deleted, summary_written, lastOp, connects, fetches, zipVars, fs, track_fs, confirm>>

\* `continue` at line 368: search_messages returned an empty list.
SkipFolder ==
    /\ fi' = fi + 1 /\ pc' = "folder_loop"
    /\ UNCHANGED <<nmsgs, i, folder_downloaded, folder_errors>>

\* The select with its outcome not looked at: the search follows in any case.
search_select_unchecked ==
    /\ pc = "select"
    /\ \E o \in Outcomes :
        /\ lastOp' = Op("SELECT", Folder, 0, o)
        /\ selected' = IF Call(o).result = "OK" THEN Folder ELSE NoFolder
        /\ pc' = "search"
        /\ UNCHANGED <<fi, nmsgs, i, folder_downloaded, folder_errors>>
    /\ UNCHANGED <<argVars, outcome, ret, connected, date_criteria, folders,
                   total_downloaded, total_errors, total_deleted, summary_written,
                   connects, fetches, fetched, rawWritten, metaWritten, stored,
                   downloadedIds, errorIds, expunged, zipVars, fs, track_fs, confirm>>

\* search_messages lines 86-91, 108-110: mail.select(folder).
search_select ==
    /\ pc = "select"
    /\ \E o \in Outcomes :
        /\ lastOp' = Op("SELECT", Folder, 0, o)
        /\ IF Call(o).result = "OK"
           THEN /\ selected' = Folder /\ pc' = "search"
                /\ UNCHANGED <<fi, nmsgs, i, folder_downloaded, folder_errors>>
           ELSE /\ selected' = NoFolder /\ SkipFolder
    /\ UNCHANGED <<argVars, outcome, ret, connected, date_criteria, folders,
                   total_downloaded, total_errors, total_deleted, summary_written,
                   connects, fetches, fetched, rawWritten, metaWritten, stored,
                   downloadedIds, errorIds, expunged, zipVars, fs, track_fs, confirm>>

\* search_messages lines 93-110: mail.search(None, criteria); then lines 366-372.
search_search ==
    /\ pc = "search"
    /\ \E o \in Outcomes, n \in 0..MaxMsgs :
        /\ lastOp' = Op("SEARCH", Folder, 0, o)
        /\ IF Call(o).result = "OK" /\ n > 0
           THEN /\ nmsgs' = n /\ i' = 1 /\ pc' = "msg_loop" /\ fi' = fi
                /\ folder_downloaded' = 0 /\ folder_errors' = 0
           ELSE SkipFolder
    /\ UNCHANGED <<argVars, outcome, ret, mailVars, date_criteria, folders,
                   total_downloaded, total_errors, total_deleted, summary_written,
                   connects, fetches, fetched, rawWritten, metaWritten, stored,
                   downloadedIds, errorIds, expunged, zipVars, fs, track_fs, confirm>>

\* The loop with the expunge moved into it: once a message of the mailbox has
\* been downloaded the mailbox is expunged before the remaining handles are tried.
msg_loop_expunge_early ==
    /\ pc = "msg_loop"
    /\ IF delete_messages /\ folder_downloaded > 0
       THEN pc' = "expunge_select"
       ELSE IF i > nmsgs \/ LimitReached(limit, i)
            THEN pc' = "after_loop"
            ELSE pc' = "fetch"
    /\ UNCHANGED <<argVars, outcome, ret, mailVars, locVars, histVars, zipVars>>

\* archive_messages lines 374-377: loop test and the cap.
msg_loop ==
    /\ pc = "msg_loop"
    /\ IF i > nmsgs \/ LimitReached(limit, i)
       THEN pc' = "after_loop"
       ELSE pc' = "fetch"
    /\ UNCHANGED <<argVars, outcome, ret, mailVars, locVars, histVars, zipVars>>

\* The counting with the per-mailbox error counter forgotten.
finish_message_errors_uncounted(ok) ==
    /\ IF ok
       THEN /\ total_downloaded' = total_downloaded + 1
            /\ folder_downloaded' = folder_downloaded + 1
            /\ total_deleted' = IF delete_messages THEN total_deleted + 1 ELSE total_deleted
            /\ downloadedIds' = downloadedIds \cup {i}
            /\ UNCHANGED <<total_errors, folder_errors, errorIds>>
       ELSE /\ total_errors' = total_errors + 1
            /\ errorIds' = errorIds \cup {i}
            /\ UNCHANGED <<total_downloaded, folder_downloaded, total_deleted,
                           downloadedIds, folder_errors>>
    /\ i' = i + 1
    /\ pc' = "msg_loop"

\* archive_messages lines 381-388: count the result of download_message; next i.
finish_message(ok) ==
    /\ IF ok
       THEN /\ total_downloaded' = total_downloaded + 1
            /\ folder_downloaded' = folder_downloaded + 1
            /\ total_deleted' = IF delete_messages THEN total_deleted + 1 ELSE total_deleted
            /\ downloadedIds' = downloadedIds \cup {i}
            /\ UNCHANGED <<total_errors, folder_errors, errorIds>>
       ELSE /\ total_errors' = total_errors + 1
            /\ folder_errors' = folder_errors + 1
            /\ errorIds' = errorIds \cup {i}
            /\ UNCHANGED <<total_downloaded, folder_downloaded, total_deleted, downloadedIds>>
    /\ i' = i + 1
    /\ pc' = "msg_loop"

\* download_message lines 114-119, 166-168: mail.fetch(msg_id, '(RFC822)').
download_fetch ==
    /\ pc = "fetch"
    /\ \E o \in Outcomes :
        /\ lastOp' = Op("FETCH", Folder, i, o)
        /\ fetches' = fetches + Call(o).attempts
        /\ fetched' = fetched \cup {i}
        /\ IF Call(o).result = "OK"
           THEN /\ pc' = "write_raw"
                /\ UNCHANGED <<i, folder_downloaded, folder_errors, total_downloaded,
                               total_errors, total_deleted, downloadedIds, errorIds>>
           ELSE finish_message(FALSE)
    /\ UNCHANGED <<argVars, outcome, ret, mailVars, date_criteria, folders, fi, nmsgs,
                   summary_written, connects, rawWritten, metaWritten, stored,
                   expunged, zipVars, fs, track_fs, confirm>>

\* download_message lines 137-139: the raw .eml file.
download_write_raw ==
    /\ pc = "write_raw"
    /\ \E ok \in BOOLEAN, subject \in Subjects :
        IF ok
        THEN /\ rawWritten' = rawWritten \cup {i} /\ pc' = "write_meta"
             /\ fs' = IF track_fs
                      THEN fs \cup {[path  |-> FilePath(Folder, i, subject),
                                     owner |-> <<Folder, i>>]}
                      ELSE fs
             /\ UNCHANGED <<i, folder_downloaded, folder_errors, total_downloaded,
                            total_errors, total_deleted, downloadedIds, errorIds>>
        ELSE /\ rawWritten' = rawWritten /\ fs' = fs /\ finish_message(FALSE)
    /\ UNCHANGED <<argVars, outcome, ret, mailVars, date_criteria, folders, fi, nmsgs,
                   summary_written, lastOp, connects, fetches, fetched, metaWritten,
                   stored, expunged, zipVars, track_fs, confirm>>

\* The metadata write with its failure swallowed: the delete-mark follows even
\* when the record was not written.
download_write_meta_unchecked ==
    /\ pc = "write_meta"
    /\ \E ok \in BOOLEAN :
        /\ metaWritten' = IF ok THEN metaWritten \cup {i} ELSE metaWritten
        /\ IF delete_messages
           THEN /\ pc' = "store"
                /\ UNCHANGED <<i, folder_downloaded, folder_errors, total_downloaded,
                               total_errors, total_deleted, downloadedIds, errorIds>>
           ELSE finish_message(ok)
    /\ UNCHANGED <<argVars, outcome, ret, mailVars, date_criteria, folders, fi, nmsgs,
                   summary_written, lastOp, connects, fetches, fetched, rawWritten,
                   stored, expunged, zipVars, fs, track_fs, confirm>>

\* download_message lines 141-155, 164: the metadata file, then either the
\* delete-mark or `return True`.
download_write_meta ==
    /\ pc = "write_meta"
    /\ \E ok \in BOOLEAN :
        IF ok
        THEN /\ metaWritten' = metaWritten \cup {i}
             /\ IF delete_messages
                THEN /\ pc' = "store"
                     /\ UNCHANGED <<i, folder_downloaded, folder_errors, total_downloaded,
                                    total_errors, total_deleted, downloadedIds, errorIds>>
                ELSE finish_message(TRUE)
        ELSE /\ metaWritten' = metaWritten /\ finish_message(FALSE)
    /\ UNCHANGED <<argVars, outcome, ret, mailVars, date_criteria, folders, fi, nmsgs,
                   summary_written, lastOp, connects, fetches, fetched, rawWritten,
                   stored, expunged, zipVars, fs, track_fs, confirm>>

\* download_message lines 156-164: mail.store(msg_id, '+FLAGS', '\\Deleted');
\* its status is not read and its exception only prints a warning.
download_store ==
    /\ pc = "store"
    /\ \E o \in Outcomes :
        /\ lastOp' = Op("STORE", Folder, i, o)
        /\ stored' = stored \cup {i}
        /\ finish_message(TRUE)
    /\ UNCHANGED <<argVars, outcome, ret, mailVars, date_criteria, folders, fi, nmsgs,
                   summary_written, connects, fetches, fetched, rawWritten, metaWritten,
                   expunged, zipVars, fs, track_fs, confirm>>

\* The expunge requested for every mailbox of a deleting run, downloaded
\* messages or not.
after_loop_any ==
    /\ pc = "after_loop"
    /\ IF delete_messages
       THEN /\ pc' = "expunge_select" /\ fi' = fi
       ELSE /\ pc' = "folder_loop" /\ fi' = fi + 1
    /\ UNCHANGED <<argVars, outcome, ret, mailVars, date_criteria, folders, nmsgs, i,
                   folder_downloaded, folder_errors, total_downloaded, total_errors,
                   total_deleted, summary_written, histVars, zipVars>>

\* archive_messages lines 394-399: expunge when anything was downloaded.
after_loop ==
    /\ pc = "after_loop"
    /\ IF delete_messages /\ folder_downloaded > 0
       THEN /\ pc' = "expunge_select" /\ fi' = fi
       ELSE /\ pc' = "folder_loop" /\ fi' = fi + 1
    /\ UNCHANGED <<argVars, outcome, ret, mailVars, date_criteria, folders, nmsgs, i,
                   folder_downloaded, folder_errors, total_downloaded, total_errors,
                   total_deleted, summary_written, histVars, zipVars>>

\* expunge_deleted_messages lines 172-174, 180-182: mail.select(folder), whose
\* status is not read.
expunge_select ==
    /\ pc = "expunge_select"
    /\ \E o \in Outcomes :
        /\ lastOp' = Op("SELECT", Folder, 0, o)
        /\ selected' = IF Call(o).result = "OK" THEN Folder ELSE NoFolder
        /\ IF Call(o).result = "EXC"
           THEN /\ pc' = "folder_loop" /\ fi' = fi + 1
           ELSE /\ pc' = "expunge" /\ fi' = fi
    /\ UNCHANGED <<argVars, outcome, ret, connected, date_criteria, folders, nmsgs, i,
                   folder_downloaded, folder_errors, total_downloaded, total_errors,
                   total_deleted, summary_written, connects, fetches, fetched,
                   rawWritten, metaWritten, stored, downloadedIds, errorIds, expunged,
                   zipVars, fs, track_fs, confirm>>

\* expunge_deleted_messages lines 176-182: mail.expunge(), called whatever the
\* select before it returned; the caller ignores the returned flag.  With no
\* mailbox selected imaplib raises instead of sending the command, and the
\* except clause at line 180 prints the error.
expunge_expunge ==
    /\ pc = "expunge"
    /\ \E o \in Outcomes :
        /\ lastOp' = IF selected = NoFolder
                      THEN [Op("EXPUNGE", Folder, 0, o) EXCEPT !.result = "EXC"]
                      ELSE Op("EXPUNGE", Folder, 0, o)
        /\ expunged' = TRUE
        /\ pc' = "folder_loop" /\ fi' = fi + 1
    /\ UNCHANGED <<argVars, outcome, ret, mailVars, date_criteria, folders, nmsgs, i,
                   folder_downloaded, folder_errors, total_downloaded, total_errors,
                   total_deleted, summary_written, connects, fetches, fetched,
                   rawWritten, metaWritten, stored, downloadedIds, errorIds, zipVars, fs, track_fs, confirm>>

\* archive_messages lines 401-430: the summary record, `return True`.
write_summary ==
    /\ pc = "summary"
    /\ summary_written' = TRUE
    /\ Return(TRUE)
    /\ UNCHANGED <<argVars, outcome, mailVars, date_criteria, folders, fi, nmsgs, i,
                   folder_downloaded, folder_errors, total_downloaded, total_errors,
                   total_deleted, histVars, zipVars>>

\* archive_messages line 433: mail.close() in the finally clause.  imaplib
\* accepts CLOSE only with a mailbox selected and raises otherwise; an
\* exception here leaves archive_messages before logout and is not caught
\* by main.
finally_close ==
    /\ pc = "finally"
    /\ \E o \in Outcomes :
        /\ lastOp' = Op("CLOSE", selected, 0, o)
        /\ IF selected = NoFolder \/ Call(o).result = "EXC"
           THEN /\ pc' = "done" /\ outcome' = "crash" /\ selected' = selected
           ELSE /\ pc' = "logout" /\ outcome' = outcome /\ selected' = NoFolder
    /\ UNCHANGED <<argVars, ret, connected, locVars, connects, fetches, fetched,
                   rawWritten, metaWritten, stored, downloadedIds, errorIds, expunged,
                   zipVars, fs, track_fs, confirm>>

\* archive_messages line 434: mail.logout(); then main lines 523-527.
finally_logout ==
    /\ pc = "logout"
    /\ \E o \in Outcomes :
        /\ lastOp' = Op("LOGOUT", NoFolder, 0, o)
        /\ IF Call(o).result = "EXC"
           THEN /\ outcome' = "crash" /\ connected' = connected
           ELSE /\ outcome' = (IF ret THEN "exit0" ELSE "exit1") /\ connected' = FALSE
        /\ pc' = "done"
    /\ UNCHANGED <<argVars, ret, selected, locVars, connects, fetches, fetched,
                   rawWritten, metaWritten, stored, downloadedIds, errorIds, expunged,
                   zipVars, fs, track_fs, confirm>>

Next ==
    \/ main_validate
    \/ connect_to_server
    \/ resolve_folders
    \/ get_all_folders
    \/ confirm_deletion
    \/ folder_loop
    \/ search_select
    \/ search_search
    \/ msg_loop
    \/ download_fetch
    \/ download_write_raw
    \/ download_write_meta
    \/ download_store
    \/ after_loop
    \/ expunge_select
    \/ expunge_expunge
    \/ write_summary
    \/ finally_close
    \/ finally_logout

Spec == Init /\ [][Next]_vars

\* The same run with the written files recorded.
SpecFs == InitFs /\ [][Next]_vars

\* ======================================================= compaction model
\* max_size_bytes = max_size_mb * 1024 * 1024 (line 198).
MB == 1024 * 1024

\* --max-zip-size: any integer is accepted by argparse (type=int).
ZipSizesMb == {-1, 0, 1, 2}

\* The number of mailbox subdirectories compress_folders finds.
DirCounts == {0, 1, 2}

\* File sizes in bytes: multiples of half a megabyte, zero included.
FileSizes == {k * (MB \div 2) : k \in 0..MaxFileSize}

\* The files of one mailbox subdirectory in os.walk order, each given by its size.
\* Each file is given by what os.path.getsize yields for it: its size, or
\* Unreadable when getsize raises OSError (a dangling link, a file that cannot
\* be examined).  Both walks of a subdirectory read the same values.
Unreadable == -1
DirContents == SeqsUpTo(FileSizes \cup {Unreadable}, MaxFiles)

RECURSIVE SumSizes(_, _)
\* Total size of the files of sz whose indices are listed in ixs.
SumSizes(sz, ixs) ==
    IF ixs = <<>> THEN 0 ELSE sz[Head(ixs)] + SumSizes(sz, Tail(ixs))

Indices(sz) == [k \in 1..Len(sz) |-> k]

\* get_folder_size: the sum of the sizes of all files below the folder; a file
\* whose getsize raises is passed over (lines 190-193).
get_folder_size(sz) ==
    SumSizes(sz, SelectSeq(Indices(sz), LAMBDA k : sz[k] # Unreadable))

\* list.sort(key=size, reverse=True) is stable: index k goes behind every
\* index already placed whose file is at least as large.
InsertDesc(ord, k, sz) ==
    LET p == Cardinality({j \in 1..Len(ord) : sz[ord[j]] >= sz[k]})
    IN  SubSeq(ord, 1, p) \o <<k>> \o SubSeq(ord, p + 1, Len(ord))

RECURSIVE SortPrefix(_, _)
SortPrefix(sz, n) ==
    IF n = 0 THEN <<>> ELSE InsertDesc(SortPrefix(sz, n - 1), n, sz)

\* create_multipart_zip line 214: indices of the files, largest first.
SortedLargestFirst(sz) == SortPrefix(sz, Len(sz))

\* The rotation test applied only once the container is already over the cap.
NeedNewZipLate(cur, fsize, cap) == cur > cap /\ cur > 0

\* create_multipart_zip line 229:
\* current_zip_size + file_size > max_size_bytes and current_zip_size > 0
NeedNewZip(cur, fsize, cap) == cur + fsize > cap /\ cur > 0

\* The names compress_folders may find below output_dir.
DirNames == {"INBOX", "Old_2023"}

\* The 'date' of one metadata record: 0 stands for a missing or unparsable
\* date, 1 < 2 for two calendar days.
MetaDates == {0, 1, 2}
MetaDateLists == SeqsUpTo(MetaDates, 2)

\* A label derived from the metadata records: the earliest and the latest
\* parsable date in front of the subdirectory name.
BaseNameDated(name, dates) ==
    LET ds == {dates[k] : k \in 1..Len(dates)} \ {0}
    IN  IF ds = {} THEN [min |-> 0, max |-> 0, name |-> name]
        ELSE [min  |-> CHOOSE d \in ds : \A e \in ds : d <= e,
              max  |-> CHOOSE d \in ds : \A e \in ds : d >= e,
              name |-> name]

\* create_multipart_zip line 221: base_name = source_folder.name.  No metadata
\* record is opened anywhere in the compaction code.
BaseName(name, dates) == [min |-> 0, max |-> 0, name |-> name]

\* The state in which compress_folders is called (archive_messages line 427).
ArchiveDone ==
    /\ start_date = 0 /\ end_date = 0 /\ limit = 0
    /\ delete_messages = FALSE /\ force_delete = FALSE
    /\ all_folders = FALSE /\ arg_folders = <<"INBOX">>
    /\ pc = "compress" /\ outcome = "running" /\ ret = FALSE
    /\ connected = TRUE /\ selected = NoFolder
    /\ date_criteria = <<>> /\ folders = <<"INBOX">> /\ fi = 2 /\ nmsgs = 0 /\ i = 0
    /\ folder_downloaded = 0 /\ folder_errors = 0
    /\ total_downloaded = 0 /\ total_errors = 0 /\ total_deleted = 0
    /\ summary_written = TRUE
    /\ lastOp = NoOp /\ connects = 1 /\ fetches = 0
    /\ fetched = {} /\ rawWritten = {} /\ metaWritten = {} /\ stored = {}
    /\ downloadedIds = {} /\ errorIds = {} /\ expunged = FALSE
    /\ confirm = "none" /\ track_fs = FALSE /\ fs = {}

\* compress_folders lines 257-264: nothing compressed yet.
ZipLocals ==
    /\ order = <<>> /\ zi = 0 /\ zip_files = <<>> /\ current_zip = <<>>
    /\ current_zip_size = 0 /\ current_zip_num = 0 /\ write_failed = {}
    /\ folder_size = 0 /\ folders_compressed = <<>> /\ removed = FALSE
    /\ base_name = NoLabel
    /\ packed = NotPacked

\* compress_folders(output_dir, args.max_zip_size, args.keep_uncompressed):
\* every cap, both settings of keep_uncompressed, up to two subdirectories
\* (file contents are drawn when a subdirectory is entered).
InitZip ==
    /\ ArchiveDone
    /\ ZipLocals
    /\ zpc = "dir_loop" /\ files = <<>>
    /\ \E mb \in ZipSizesMb : max_size = mb * MB
    /\ keep_uncompressed \in BOOLEAN
    /\ dirs_left \in DirCounts
    /\ dir_names = [k \in 1..dirs_left |-> IF k = 1 THEN "INBOX" ELSE "Old_2023"]
    /\ dir_dates = [k \in 1..dirs_left |-> <<1>>]

\* compress_folders over one subdirectory of any name whose metadata records
\* carry any dates, in any order; a cap of one megabyte.
InitLabel ==
    /\ ArchiveDone
    /\ ZipLocals
    /\ zpc = "dir_loop" /\ files = <<>>
    /\ max_size = MB
    /\ keep_uncompressed = FALSE
    /\ dirs_left = 1
    /\ dir_names \in [1..1 -> DirNames]
    /\ dir_dates \in [1..1 -> MetaDateLists]

dirVars == <<dir_names, dir_dates, packed>>
archVars == <<argVars, ctlVars, mailVars, locVars, histVars>>

\* compress_folders lines 271-276 and 304-308: the next mailbox subdirectory
\* with its size, or the summary file when none is left.
compress_next_dir ==
    /\ zpc = "dir_loop"
    /\ IF dirs_left = 0
       THEN /\ zpc' = "zdone"
            /\ UNCHANGED <<files, folder_size>>
       ELSE /\ zpc' = "zip_scan"
            /\ \E sz \in DirContents :
                /\ files' = sz
                /\ folder_size' = get_folder_size(sz)
    /\ UNCHANGED <<archVars, dirVars, max_size, keep_uncompressed, dirs_left, folders_compressed,
                   order, zi, zip_files, current_zip, current_zip_size, current_zip_num,
                   write_failed, removed, base_name>>

\* create_multipart_zip lines 200-223: collect, sort, open part 001.
zip_scan ==
    /\ zpc = "zip_scan"
    /\ IF \E k \in 1..Len(files) : files[k] = Unreadable
       THEN \* os.path.getsize at line 206 is not guarded: OSError leaves
            \* create_multipart_zip and compress_folders
            /\ zpc' = "oserror"
            /\ UNCHANGED <<order, zi, current_zip_num, base_name>>
       ELSE IF files = <<>>
       THEN /\ zpc' = "dir_result"
            /\ UNCHANGED <<order, zi, current_zip_num, base_name>>
       ELSE /\ order' = SortedLargestFirst(files)
            /\ base_name' = BaseName(dir_names[dirs_left], dir_dates[dirs_left])
            /\ zi' = 1
            /\ current_zip_num' = 1
            /\ zpc' = "zip_loop"
    /\ UNCHANGED <<archVars, dirVars, max_size, keep_uncompressed, dirs_left, files, zip_files,
                   current_zip, current_zip_size, write_failed, folder_size,
                   folders_compressed, removed>>

\* create_multipart_zip lines 227-245: one pass of the loop -- rotate the
\* container when the file would exceed the cap, then write the file; a write
\* that raises only prints a warning.
zip_add_file ==
    /\ zpc = "zip_loop" /\ zi <= Len(order)
    /\ LET f == order[zi]
           rotate == NeedNewZip(current_zip_size, files[f], max_size)
           size0 == IF rotate THEN 0 ELSE current_zip_size
           zip0 == IF rotate THEN <<>> ELSE current_zip
       IN  /\ zip_files' = IF rotate THEN Append(zip_files, current_zip) ELSE zip_files
           /\ current_zip_num' = IF rotate THEN current_zip_num + 1 ELSE current_zip_num
           /\ \E ok \in BOOLEAN :
                IF ok
                THEN /\ current_zip' = Append(zip0, f)
                     /\ current_zip_size' = size0 + files[f]
                     /\ write_failed' = write_failed
                ELSE /\ current_zip' = zip0
                     /\ current_zip_size' = size0
                     /\ write_failed' = write_failed \cup {f}
    /\ zi' = zi + 1
    /\ UNCHANGED <<archVars, dirVars, zpc, max_size, keep_uncompressed, dirs_left, files, order,
                   folder_size, folders_compressed, removed, base_name>>

\* The last container closed and listed whatever its counted size.
zip_close_last_always ==
    /\ zpc = "zip_loop" /\ zi > Len(order)
    /\ zip_files' = Append(zip_files, current_zip)
    /\ zpc' = "dir_result"
    /\ UNCHANGED <<archVars, dirVars, max_size, keep_uncompressed, dirs_left, files, order, zi,
                   current_zip, current_zip_size, current_zip_num, write_failed,
                   folder_size, folders_compressed, removed, base_name>>

\* create_multipart_zip lines 247-253: close and list the last container when
\* its counted size is positive; return the list.
zip_close_last ==
    /\ zpc = "zip_loop" /\ zi > Len(order)
    /\ zip_files' = IF current_zip_size > 0 THEN Append(zip_files, current_zip)
                    ELSE zip_files
    /\ zpc' = "dir_result"
    /\ UNCHANGED <<archVars, dirVars, max_size, keep_uncompressed, dirs_left, files, order, zi,
                   current_zip, current_zip_size, current_zip_num, write_failed,
                   folder_size, folders_compressed, removed, base_name>>

\* compress_folders lines 281-302: the summary entry (the ratio divides by
\* folder_size; the entry is kept here by its zip_count) and the removal of the
\* original subdirectory.
compress_record ==
    /\ zpc = "dir_result"
    /\ IF zip_files # <<>>
       THEN IF folder_size = 0
            THEN \* ZeroDivisionError at line 292
                 /\ zpc' = "zcrash"
                 /\ UNCHANGED <<folders_compressed, removed>>
            ELSE /\ folders_compressed' = Append(folders_compressed, Len(zip_files))
                 /\ removed' = ~keep_uncompressed
                 /\ zpc' = "dir_done"
       ELSE /\ zpc' = "dir_done"
            /\ UNCHANGED <<folders_compressed, removed>>
    /\ UNCHANGED <<archVars, dirVars, max_size, keep_uncompressed, dirs_left, files, order, zi,
                   zip_files, current_zip, current_zip_size, current_zip_num,
                   write_failed, folder_size, base_name>>

\* compress_folders line 271: back to the head of the loop; the locals of the
\* iteration that ended are dropped.
compress_continue ==
    /\ zpc = "dir_done"
    /\ dirs_left' = dirs_left - 1
    /\ zpc' = "dir_loop"
    /\ files' = <<>> /\ folder_size' = 0
    /\ order' = <<>> /\ zi' = 0 /\ zip_files' = <<>> /\ current_zip' = <<>>
    /\ current_zip_size' = 0 /\ current_zip_num' = 0 /\ write_failed' = {}
    /\ removed' = FALSE /\ base_name' = NoLabel
    /\ UNCHANGED <<archVars, dirVars, max_size, keep_uncompressed, folders_compressed>>

NextZip ==
    \/ compress_next_dir
    \/ zip_scan
    \/ zip_add_file
    \/ zip_close_last
    \/ compress_record
    \/ compress_continue

SpecZip == InitZip /\ [][NextZip]_vars

\* The same compaction code over the label inputs.
SpecLabel == InitLabel /\ [][NextZip]_vars

\* ------------------------------------------------- the packing rule alone
MaxPackFiles == 4

RECURSIVE PackFrom(_, _, _, _, _, _)
\* create_multipart_zip lines 227-251 with every write succeeding: the files
\* of sz from position k of ord on, the open container counting cur bytes and
\* n containers listed so far; the result is the number of containers listed.
PackFrom(sz, ord, cap, k, cur, n) ==
    IF k > Len(ord)
    THEN IF cur > 0 THEN n + 1 ELSE n
    ELSE LET fsize == sz[ord[k]]
             rotate == NeedNewZip(cur, fsize, cap)
         IN  PackFrom(sz, ord, cap, k + 1,
                      (IF rotate THEN 0 ELSE cur) + fsize,
                      IF rotate THEN n + 1 ELSE n)

\* The number of containers create_multipart_zip lists for the files of sz
\* taken in the order ord under the cap.
PackCount(sz, ord, cap) == PackFrom(sz, ord, cap, 1, 0, 0)

\* Any list of up to MaxPackFiles files under any cap.
InitPack ==
    /\ ArchiveDone
    /\ ZipLocals
    /\ zpc = "pack"
    /\ \E mb \in ZipSizesMb : max_size = mb * MB
    /\ keep_uncompressed = FALSE
    /\ dirs_left = 1
    /\ dir_names = <<"INBOX">> /\ dir_dates = << <<>> >>
    /\ files \in SeqsUpTo(FileSizes, MaxPackFiles)
    /\ packed = NotPacked

packVars == <<archVars, max_size, keep_uncompressed, dirs_left, files, zi, zip_files,
              current_zip, current_zip_size, current_zip_num, write_failed,
              folder_size, folders_compressed, removed, dir_names, dir_dates, base_name>>

\* create_multipart_zip lines 213-251: sort largest first, then pack.
pack_largest_first ==
    /\ zpc = "pack"
    /\ order' = SortedLargestFirst(files)
    /\ packed' = [packed EXCEPT !.largest_first = PackCount(files, order', max_size)]
    /\ zpc' = "pack_arrival"
    /\ UNCHANGED packVars

\* Lines 227-251 applied to the files as os.walk delivered them.
pack_arrival_order ==
    /\ zpc = "pack_arrival"
    /\ packed' = [packed EXCEPT !.arrival = PackCount(files, Indices(files), max_size)]
    /\ zpc' = "packed"
    /\ UNCHANGED <<packVars, order>>

NextPack ==
    \/ pack_largest_first
    \/ pack_arrival_order

SpecPack == InitPack /\ [][NextPack]_vars

\* ================================================================ claims
\* The positions at which the observations of a mailbox iteration are held.
InMailbox ==
    pc \in {"search", "msg_loop", "fetch", "write_raw", "write_meta", "store",
            "after_loop", "expunge_select", "expunge", "folder_loop"}

\* The remote operations the retry policy is stated for.
RemoteOps == {"SEARCH", "FETCH", "STORE", "EXPUNGE", "LIST"}

Processed == downloadedIds \cup errorIds

\* C1: a delete-mark (STORE +FLAGS \Deleted) is issued for a message only after
\* both its raw file and its metadata record were written; a message one of
\* whose writes failed is counted as an error and never gets a delete-mark.
C1_DeleteAfterPersist ==
    /\ stored \subseteq (rawWritten \cap metaWritten)
    /\ \A m \in Processed :
          (m \notin rawWritten \/ m \notin metaWritten) => m \in errorIds /\ m \notin stored
    /\ (lastOp.kind = "STORE" /\ InMailbox) =>
          lastOp.msg \in rawWritten /\ lastOp.msg \in metaWritten

\* C1 witness: in one mailbox a message was delete-marked after both writes,
\* and another message whose metadata write failed was left unmarked.
C1_Witness ==
    /\ stored # {}
    /\ \E m \in errorIds : m \in rawWritten /\ m \notin metaWritten
    /\ pc = "after_loop"

C3_RetryTransparent ==
    (lastOp.kind \in RemoteOps /\ lastOp.fails = 1 /\ lastOp.status = "OK"
        /\ (InMailbox \/ lastOp.kind = "LIST")) =>
        /\ lastOp.result = "OK"
        /\ lastOp.kind = "FETCH" => lastOp.msg \notin errorIds

\* C3 (amended): an operation that fails once with a transient error is not
\* issued again, although a second attempt would succeed; the failure is its
\* outcome: a failed LIST ends the run with no mailbox processed, a failed
\* SEARCH skips the mailbox, a failed FETCH counts the message as an error with
\* no file written and no delete-mark, a failed STORE leaves the message
\* counted as downloaded.
C3_FirstFailureIsFinal ==
    (lastOp.kind \in RemoteOps /\ lastOp.fails = 1 /\ lastOp.status = "OK"
        /\ (InMailbox \/ lastOp.kind = "LIST")) =>
        /\ lastOp.result = "EXC"
        /\ lastOp.attempts = 1
        /\ lastOp.kind = "LIST" => folders = <<>> /\ pc = "finally" /\ ~ret /\ fetches = 0
        /\ lastOp.kind = "SEARCH" => pc = "folder_loop" /\ nmsgs = 0 /\ fetched = {}
        /\ lastOp.kind = "FETCH" =>
              /\ lastOp.msg \in errorIds
              /\ lastOp.msg \notin (rawWritten \cup metaWritten \cup stored \cup downloadedIds)
        /\ lastOp.kind = "STORE" => lastOp.msg \in downloadedIds

\* C3 witness: a FETCH failed once (a second attempt would succeed) and its
\* message is counted as an error.
C3_Witness ==
    /\ lastOp.kind = "FETCH" /\ lastOp.fails = 1 /\ lastOp.status = "OK"
    /\ lastOp.msg \in errorIds
    /\ pc = "msg_loop"

\* C4 (as claimed): for an operation that fails twice in a row exactly one
\* reconnect is attempted (a second connection) and the operation is issued
\* twice, never a third time.
C4_OneReconnect ==
    (lastOp.kind \in RemoteOps /\ lastOp.fails >= 2) =>
        /\ connects = 2
        /\ lastOp.attempts = 2

\* C4 (amended): for an operation that would fail twice in a row no reconnect
\* is attempted (the run connects once), the operation is issued exactly once,
\* and a failed FETCH is reported as exactly one per-item error.
C4_NoReconnect ==
    (lastOp.kind \in RemoteOps /\ lastOp.fails >= 2) =>
        /\ connects = 1
        /\ lastOp.attempts = 1
        /\ (lastOp.kind = "FETCH" /\ InMailbox) =>
              /\ lastOp.msg \in errorIds
              /\ folder_errors = Cardinality(errorIds)
              /\ fetches = total_downloaded + total_errors
                           + (IF pc \in {"write_raw", "write_meta", "store"} THEN 1 ELSE 0)

\* C4 witness: a FETCH that would fail twice was issued and counted as one error.
C4_Witness ==
    /\ lastOp.kind = "FETCH" /\ lastOp.fails = 2
    /\ errorIds = {lastOp.msg} /\ folder_errors = 1
    /\ pc = "msg_loop"

\* C5: with start date after end date the run ends with a failure outcome and
\* issues no network operation at all.
C5_BadRangeNoNetwork ==
    (start_date # 0 /\ end_date # 0 /\ start_date > end_date) =>
        /\ connects = 0 /\ lastOp = NoOp /\ ~connected
        /\ pc \in {"main", "done"}
        /\ pc = "done" => outcome = "exit1"

\* C5 witness: a run with start after end has ended.
C5_Witness ==
    /\ start_date = 2 /\ end_date = 1
    /\ pc = "done" /\ outcome = "exit1"

\* C6 (as claimed): when the processing of a mailbox with N search results
\* ends, errors plus downloads equals N.
C6_AllCounted ==
    pc = "after_loop" => folder_downloaded + folder_errors = nmsgs

\* C6 (amended): when the processing of a mailbox with N search results ends,
\* errors plus downloads equals the number of handles attempted -- N without a
\* cap, min(N, L) under a cap L >= 1, none under a negative cap -- and each
\* attempted handle is counted in exactly one of the two counters.
C6_AttemptedCounted ==
    pc = "after_loop" =>
        /\ folder_downloaded + folder_errors = Attempted(nmsgs, limit)
        /\ downloadedIds \cap errorIds = {}
        /\ Processed = 1..Attempted(nmsgs, limit)
        /\ folder_downloaded = Cardinality(downloadedIds)
        /\ folder_errors = Cardinality(errorIds)

\* C6 witness: two results under a cap of one: one handle counted.
C6_Witness ==
    /\ pc = "after_loop" /\ nmsgs = 2 /\ limit = 1
    /\ folder_downloaded + folder_errors = 1

\* C7 (as claimed): under a cap L at most L FETCH operations are issued in the
\* whole run.
C7_RunWideCap ==
    limit >= 1 => fetches <= limit

\* C7 (amended): the cap is checked before each attempt and bounds each mailbox
\* on its own: in one mailbox at most L FETCH operations are issued, handles
\* beyond the L-th get no FETCH and no STORE, and the run issues at most L
\* FETCH operations per mailbox of its list.
C7_PerMailboxCap ==
    limit >= 1 =>
        /\ fetched \subseteq 1..limit
        /\ stored \subseteq 1..limit
        /\ fetches <= limit * Len(folders)

\* C7 witness: cap one, a second mailbox with two results: its first handle is
\* the second FETCH of the run, its second handle is untouched.
C7_Witness ==
    /\ limit = 1 /\ nmsgs = 2 /\ fi = 2
    /\ pc = "after_loop"
    /\ fetches = 2 /\ fetched = {1}

\* What can end a run: the validation in main, a failed connection, an empty
\* result of --all-folders, a declined prompt, an exception in the finally clause.
BadRange == start_date # 0 /\ end_date # 0 /\ start_date > end_date
ConnectFailed == lastOp.kind = "CONNECT" /\ lastOp.result # "OK"
NoFolders == all_folders /\ folders = <<>> /\ lastOp.kind \in {"LIST", "CLOSE", "LOGOUT"}
Declined == confirm = "no"
ShutdownRaised ==
    \/ lastOp.kind = "CLOSE" /\ (lastOp.folder = NoFolder \/ lastOp.result = "EXC")
    \/ lastOp.kind = "LOGOUT" /\ lastOp.result = "EXC"

C13_FailedStoreIsError ==
    (lastOp.kind = "STORE" /\ lastOp.result # "OK" /\ pc = "msg_loop") =>
        /\ lastOp.msg \in errorIds
        /\ lastOp.msg \notin downloadedIds
        /\ (total_downloaded + total_errors = 1) => total_deleted = 0

\* The positions from the first mailbox on, up to the summary.
ProcessingMailboxes == InMailbox \/ pc = "select" \/ pc = "summary"

\* C14: with deletion requested and the force flag off, no STORE and no EXPUNGE
\* is issued -- and no mailbox is processed at all -- unless the prompt was
\* answered "yes" before the first mailbox; after any other answer the run
\* issues no mailbox operation.
C14_ConfirmedBeforeDeletion ==
    (delete_messages /\ ~force_delete) =>
        /\ (stored # {} \/ expunged \/ lastOp.kind \in {"STORE", "EXPUNGE"}) => confirm = "yes"
        /\ ProcessingMailboxes => confirm = "yes"
        /\ confirm = "no" =>
              /\ fetches = 0 /\ total_deleted = 0
              /\ lastOp.kind \notin {"SELECT", "SEARCH", "FETCH", "STORE", "EXPUNGE"}

\* C14 witness: deletion requested without force, the prompt answered "yes",
\* a message delete-marked and its mailbox expunged.
C14_Witness ==
    /\ delete_messages /\ ~force_delete /\ confirm = "yes"
    /\ stored # {} /\ expunged

\* C15: shutdown is best-effort: once the session was opened, the run ends with
\* logout performed and with no exception of a shutdown step reaching the
\* caller, whatever the session state (no mailbox selected included).
C15_ShutdownBestEffort ==
    (pc = "done" /\ lastOp.kind \in {"CLOSE", "LOGOUT"}) =>
        /\ lastOp.kind = "LOGOUT"
        /\ outcome # "crash"

\* C16: a SELECT or SEARCH of search_messages that does not succeed skips
\* exactly that mailbox: the step goes on to the next mailbox of the list, no
\* FETCH, STORE or EXPUNGE is issued for the skipped one, nothing is counted for
\* it, and every counter of the run keeps the value the other mailboxes gave it.
C16_FailedMailboxSkipped ==
    [][ (pc \in {"select", "search"} /\ lastOp'.result # "OK") =>
            /\ lastOp'.kind \in {"SELECT", "SEARCH"}
            /\ pc' = "folder_loop" /\ fi' = fi + 1
            /\ outcome' = "running"
            /\ UNCHANGED <<total_downloaded, total_errors, total_deleted, fetches,
                           folder_downloaded, folder_errors>>
            /\ fetched' = {} /\ stored' = {} /\ ~expunged'
            /\ downloadedIds' = {} /\ errorIds' = {} ]_vars

\* C16 witness: the first mailbox gave one download and one error; the SEARCH
\* of the second raised, and the run stands at the head of the loop with the
\* counters of the first mailbox.
C16_Witness ==
    /\ pc = "folder_loop" /\ fi = 3
    /\ lastOp.kind = "SEARCH" /\ lastOp.result = "EXC"
    /\ total_downloaded = 1 /\ total_errors = 1 /\ fetches = 2
    /\ fetched = {} /\ ~expunged

\* C17: every SEARCH, FETCH, STORE and EXPUNGE is called only while the mailbox
\* it targets is the mailbox successfully selected on the connection; no
\* EXPUNGE is called for a mailbox whose last SELECT did not succeed.
C17_OnlyWhileSelected ==
    (lastOp.kind \in {"SEARCH", "FETCH", "STORE", "EXPUNGE"} /\ InMailbox) =>
        /\ selected # NoFolder
        /\ selected = lastOp.folder

\* C18 (as claimed): when the processing of a mailbox ends, EXPUNGE has been
\* called for it if and only if deletion was requested and at least one of its
\* messages was downloaded; without deletion no STORE and no EXPUNGE is called.
C18_ExpungeIff ==
    /\ pc = "folder_loop" => (expunged <=> (delete_messages /\ downloadedIds # {}))
    /\ ~delete_messages => stored = {} /\ ~expunged /\ lastOp.kind \notin {"STORE", "EXPUNGE"}

\* C18 (amended): expunge_deleted_messages is entered for a mailbox if and only
\* if deletion was requested and at least one of its messages was downloaded; it
\* selects the mailbox again and calls EXPUNGE unless that SELECT raises, in
\* which case no EXPUNGE is called for the mailbox.  Without deletion no STORE
\* and no EXPUNGE is called.
C18_ExpungeIffReselected ==
    /\ pc \in {"expunge_select", "expunge"} => delete_messages /\ downloadedIds # {}
    /\ pc = "folder_loop" =>
          (expunged <=> (/\ delete_messages /\ downloadedIds # {}
                         /\ ~(lastOp.kind = "SELECT" /\ lastOp.result = "EXC")))
    /\ ~delete_messages => stored = {} /\ ~expunged /\ lastOp.kind \notin {"STORE", "EXPUNGE"}

\* C18 witness: a deleting run downloaded the one message of a mailbox and
\* its EXPUNGE succeeded.
C18_Witness ==
    /\ pc = "folder_loop" /\ delete_messages
    /\ downloadedIds = {1} /\ errorIds = {} /\ expunged
    /\ lastOp.kind = "EXPUNGE" /\ lastOp.result = "OK"

\* C19: two distinct (mailbox, handle) pairs processed in one run are written
\* to distinct file paths, mailboxes whose names differ only in '/' against
\* '_' included, so that no message's file is overwritten by another's.
C19_DistinctPaths ==
    \A a \in fs, b \in fs : a.path = b.path => a.owner = b.owner

\* ---------------------------------------------------- compaction claims
\* The containers create_multipart_zip returns, each the list of its files.
Containers == 1..Len(zip_files)

\* How many times file f is held by the returned containers.
Occurrences(f) ==
    Cardinality({kj \in {<<k, j>> : k \in 1..Len(zip_files), j \in 1..MaxFiles + 1} :
                    /\ kj[2] <= Len(zip_files[kj[1]])
                    /\ zip_files[kj[1]][kj[2]] = f})

\* C8: every container listed by create_multipart_zip holds at most
\* max_size_bytes of file content, except a container holding exactly one
\* file that is itself larger than the cap.
C8_ContainersWithinCap ==
    \A k \in Containers :
        LET c == zip_files[k]
        IN  \/ SumSizes(files, c) <= max_size
            \/ (Len(c) = 1 /\ files[c[1]] > max_size)

\* C8 witness: under a positive cap, one container holds a single oversized
\* file and another holds two files within the cap.
C8_Witness ==
    /\ zpc = "dir_result" /\ max_size > 0 /\ write_failed = {}
    /\ \E k \in Containers : Len(zip_files[k]) = 1 /\ files[zip_files[k][1]] > max_size
    /\ \E k \in Containers :
          Len(zip_files[k]) >= 2 /\ SumSizes(files, zip_files[k]) <= max_size

\* C9: when create_multipart_zip returns (a positive cap, no write having
\* failed), every input file is held by exactly one of the returned containers.
C9_EveryFileOnce ==
    (zpc = "dir_result" /\ write_failed = {} /\ max_size > 0) =>
        \A f \in 1..Len(files) : Occurrences(f) = 1

\* C10: a subdirectory holding at least one file, all of zero length, yields at
\* least one container (a positive cap, no write having failed).
C10_ZeroLengthFilesPacked ==
    (/\ zpc = "dir_result" /\ write_failed = {} /\ max_size > 0
     /\ files # <<>> /\ \A k \in 1..Len(files) : files[k] = 0) =>
        zip_files # <<>>

\* C21: the original subdirectory is removed only when every one of its files
\* was written into a container that was closed and is listed in the result
\* (a positive cap); a file whose write failed, or that sits in a container
\* never closed, keeps its original.
C21_RemovedOnlyWhenAllPacked ==
    (zpc = "dir_done" /\ removed /\ max_size > 0) =>
        /\ write_failed = {}
        /\ \A f \in 1..Len(files) : Occurrences(f) = 1

\* C22: whenever create_multipart_zip has listed a container for a
\* subdirectory -- so that compress_folders records a summary entry for it --
\* the size get_folder_size computed for the subdirectory is strictly positive,
\* and the compression ratio is never computed with a zero divisor.
C22_EntryHasPositiveSize ==
    /\ zip_files # <<>> => folder_size > 0
    /\ zpc # "zcrash"

\* C22 witness: a summary entry was recorded for a subdirectory holding a
\* zero-length file next to a file of positive size.
C22_Witness ==
    /\ zpc = "dir_done" /\ zip_files # <<>>
    /\ Len(folders_compressed) = 1 /\ folders_compressed[1] = Len(zip_files)
    /\ \E f \in 1..Len(files) : files[f] = 0
    /\ folder_size > 0

\* ---------------------------------------------------------- label claims
\* The subdirectory being compacted, and the states in which its base label
\* has been computed.
CurName == dir_names[dirs_left]
CurDates == dir_dates[dirs_left]
LabelComputed == zpc \in {"zip_loop", "dir_result"} /\ files # <<>>

\* The parsable dates among the metadata records of the subdirectory.
ParsableDates == {CurDates[k] : k \in 1..Len(CurDates)} \ {0}

\* C11 (as claimed): when the metadata records of a subdirectory hold at least
\* one parsable date, the base label of its containers is
\* <min-date>_to_<max-date>_<mailbox-name>; otherwise it is the mailbox name alone.
C11_DateRangeLabel ==
    LabelComputed =>
        /\ base_name.name = CurName
        /\ IF ParsableDates = {}
           THEN base_name.min = 0 /\ base_name.max = 0
           ELSE /\ base_name.min \in ParsableDates
                /\ base_name.max \in ParsableDates
                /\ \A d \in ParsableDates : base_name.min <= d /\ d <= base_name.max

\* C11 (amended): the base label of a subdirectory's containers is the mailbox
\* subdirectory name alone, whether or not its metadata records hold parsable
\* dates, and so does not depend on the order of the records.
C11_NameOnlyLabel ==
    LabelComputed => base_name = [min |-> 0, max |-> 0, name |-> CurName]

\* C11 witness: the records hold two parsable dates stored latest first, and
\* the containers of the subdirectory are labelled with the name alone.
C11_Witness ==
    /\ zpc = "dir_result" /\ zip_files # <<>>
    /\ CurDates = <<2, 1>>
    /\ base_name = [min |-> 0, max |-> 0, name |-> "Old_2023"]

\* -------------------------------------------------------- packing claims
\* C20 (as claimed): packing a file list largest first never lists more
\* containers than packing the same files by the same rule in arrival order.
C20_NeverMoreThanArrival ==
    zpc = "packed" => packed.largest_first <= packed.arrival

\* C20 (amended): for a list of at most three files largest first never lists
\* more containers than arrival order; from four files on it can list more,
\* though never more than twice as many.
C20_AtMostTwiceArrival ==
    zpc = "packed" =>
        /\ Len(files) <= 3 => packed.largest_first <= packed.arrival
        /\ packed.largest_first <= 2 * packed.arrival

\* C20 witness: three files for which largest first lists fewer containers
\* than arrival order.
C20_Witness ==
    /\ zpc = "packed" /\ Len(files) = 3
    /\ packed.largest_first < packed.arrival
====
